---- MODULE Spec2Model ----
(***************************************************************************)
(* State-machine model of the SYCL command-graph extension                 *)
(* (sycl/ext/oneapi/experimental/graph.hpp): node_impl, graph_impl, node,  *)
(* graph and executable_graph.                                             *)
(*                                                                         *)
(* A node_ptr is modelled by the identity of the node_impl it points to    *)
(* (a node number, in creation order).  std::set<node_ptr> orders its      *)
(* members by address, so the model keeps the address order of the nodes   *)
(* (addr_order), chosen freely when a node is allocated.  A sycl::event is *)
(* modelled by the node whose submission returned it; DefaultEvent is the  *)
(* default-constructed event, which no submission returned.  Whether an    *)
(* event was returned during the running graph_impl::exec call or by an    *)
(* earlier one is recorded with each wait list (fresh).                    *)
(*                                                                         *)
(* Ownership.  Every node_impl is made by a node handle, whose my_node     *)
(* owns it; the callers keep their handles.  topology_sort pushes          *)
(* node_ptr(this) and register_successor passes node_ptr(this): each is a  *)
(* new shared_ptr that owns the node_impl on its own, with a use count of  *)
(* one.  When such an entry is destroyed the node_impl is deleted although *)
(* handles, roots and successor lists still point to it.  (An entry that   *)
(* is a copy of a handle's pointer, as register_predecessor called alone   *)
(* stores, shares the handle's count: destroying it deletes nothing;       *)
(* pred_owner tells the two kinds apart.)  The deleted nodes are kept in   *)
(* freed.  The deletion itself is defined unless a node has two such       *)
(* owners (it is deleted twice).  A later call that reads or writes a      *)
(* deleted node, or deletes one again, has undefined behaviour: it may be  *)
(* killed, and when it returns it has read what the deleted storage held:  *)
(* a flag byte of it is 0, 1 or another value, which tests true and whose  *)
(* negation tests true as well (garbage).  When such a call returns, the   *)
(* memory of the process is no longer what the statements of the program   *)
(* made it (the allocator may hold one chunk twice): from then on every    *)
(* call has undefined behaviour, whether it touches a deleted node or not  *)
(* (corrupt).  A call with undefined behaviour is killed, or returns with  *)
(* the heap its statements compute, or returns with a heap of which the    *)
(* source tells nothing; the process is then not followed further (lost).  *)
(* A node_impl allocated later may be given the storage of a deleted one:  *)
(* every pointer to the deleted node then points to the new node (alias).  *)
(***************************************************************************)
EXTENDS Naturals, Integers, Sequences, FiniteSets, TLC

\* ------------------------------------------------------------------ bounds
MaxNodes == 3
MaxLinks == 3
MaxDeps == 2
MaxId == 1
MaxDeleted == 1

\* ------------------------------------------------------------ input domains
Node == 1..MaxNodes
AllGraphs == {"g1", "g2"}
Bodies == {"w1"}
NoBody == "none"
NullGraph == "null"
NullNode == 0
DefaultEvent == 0
Ids == 0..MaxId
Undefined == -1

\* how the statements of a call have gone so far: all defined; or a deleted
\* node was read, written or deleted again (undefined behaviour); or a
\* null graph_ptr was dereferenced (the process is killed)
Defined == "none"
UndefinedBehaviour == "undefined"
Killed == "killed"

VARIABLES
  nnodes,            \* number of node_impl objects allocated so far
  addr_order,        \* the allocated nodes by ascending address
  is_scheduled,      \* node_impl::is_scheduled
  is_empty,          \* node_impl::is_empty
  nid,               \* node_impl::nid
  my_body,           \* node_impl::my_body (NoBody: empty std::function)
  node_graph,        \* node_impl::my_graph
  handle_graph,      \* node::my_graph, of each node handle
  my_event,          \* node_impl::my_event
  my_successors,     \* node_impl::my_successors
  my_predecessors,   \* node_impl::my_predecessors
  pred_owner,        \* for each entry of my_predecessors: TRUE when it is a
                     \* node_ptr(this), the only owner of its control block
  garbage,           \* the flags of deleted nodes, by field, whose byte is
                     \* neither 0 nor 1
  my_roots,          \* graph_impl::my_roots, per graph
  my_schedule,       \* graph_impl::my_schedule, per graph
  ptr_prev_node,     \* graph::ptr_prev_node, per graph
  freed,             \* the node_impl objects deleted while still pointed to
  alias,             \* for each node handle, the node_impl now at its address
  hung,              \* TRUE when a call never returned (it loops for ever
                     \* or the process was killed in it)
  corrupt,           \* TRUE when a call with undefined behaviour has
                     \* returned: every later call is undefined
  lost,              \* TRUE when a call with undefined behaviour has
                     \* returned with a heap the source tells nothing of
  has_exec_graph     \* TRUE when an executable_graph has been constructed

vars == <<nnodes, addr_order, is_scheduled, is_empty, nid, my_body, node_graph,
          handle_graph, my_event, my_successors, my_predecessors, pred_owner,
          garbage, my_roots, my_schedule, ptr_prev_node, freed, alias, hung,
          corrupt, lost, has_exec_graph>>

\* --------------------------------------------------------------- utilities
Range(s) == {s[i] : i \in 1..Len(s)}

Created == 1..nnodes

SeqsUpTo(S, k) == UNION {[1..m -> S] : m \in 0..k}

InsertAt(s, p, x) == SubSeq(s, 1, p - 1) \o <<x>> \o SubSeq(s, p, Len(s))

\* the number of times x occurs in the sequence s
Occ(s, x) == Cardinality({i \in 1..Len(s) : s[i] = x})

\* the sequence s with every f replaced by n
SubstSeq(s, f, n) == [i \in 1..Len(s) |-> IF s[i] = f THEN n ELSE s[i]]

\* The program state as one record, so that calls compose.  fault tells how
\* the statements of the running call have gone so far; a call made after a
\* call with undefined behaviour has returned is undefined from its start.
Heap ==
  [nnodes |-> nnodes, addr_order |-> addr_order,
   is_scheduled |-> is_scheduled, is_empty |-> is_empty, nid |-> nid,
   my_body |-> my_body,
   node_graph |-> node_graph, handle_graph |-> handle_graph,
   my_event |-> my_event,
   my_successors |-> my_successors, my_predecessors |-> my_predecessors,
   pred_owner |-> pred_owner, garbage |-> garbage,
   my_roots |-> my_roots, my_schedule |-> my_schedule,
   ptr_prev_node |-> ptr_prev_node, freed |-> freed, alias |-> alias,
   fault |-> IF corrupt THEN UndefinedBehaviour ELSE Defined]

SetHeap(h) ==
  /\ nnodes' = h.nnodes
  /\ addr_order' = h.addr_order
  /\ is_scheduled' = h.is_scheduled
  /\ is_empty' = h.is_empty
  /\ nid' = h.nid
  /\ my_body' = h.my_body
  /\ node_graph' = h.node_graph
  /\ handle_graph' = h.handle_graph
  /\ my_event' = h.my_event
  /\ my_successors' = h.my_successors
  /\ my_predecessors' = h.my_predecessors
  /\ pred_owner' = h.pred_owner
  /\ garbage' = h.garbage
  /\ my_roots' = h.my_roots
  /\ my_schedule' = h.my_schedule
  /\ ptr_prev_node' = h.ptr_prev_node
  /\ freed' = h.freed
  /\ alias' = h.alias
  /\ corrupt' = (h.fault # Defined)

\* the links of the heap: the successor entries of every node_impl (a
\* handle whose address holds a later node_impl shows that node's list)
NumLinks(h) ==
  LET RECURSIVE Sum(_)
      Sum(k) == IF k = 0 THEN 0
                ELSE (IF h.alias[k] = k THEN Len(h.my_successors[k]) ELSE 0)
                       + Sum(k - 1)
  IN Sum(MaxNodes)

\* the predecessor entries of every node_impl
NumPredecessors(h) ==
  LET RECURSIVE Sum(_)
      Sum(k) == IF k = 0 THEN 0
                ELSE (IF h.alias[k] = k THEN Len(h.my_predecessors[k]) ELSE 0)
                       + Sum(k - 1)
  IN Sum(MaxNodes)

\* the statements so far read or wrote the nodes of S: undefined behaviour
\* when one of them is deleted
Touch(h, S) ==
  IF h.fault = Defined /\ S \cap h.freed # {}
    THEN [h EXCEPT !.fault = UndefinedBehaviour] ELSE h

\* b is reachable from a along the links succ (a path of at least one link)
LinkReaches(succ, a, b) ==
  LET RECURSIVE Grow(_)
      Grow(S) ==
        LET T == S \cup UNION {Range(succ[x]) : x \in S}
        IN IF T = S THEN S ELSE Grow(T)
  IN b \in Grow(Range(succ[a]))

\* b is reachable from a along successor links
Reaches(h, a, b) == LinkReaches(h.my_successors, a, b)

Acyclic(h) == \A n \in Node : ~Reaches(h, n, n)

\* ---------------------------------------------------------------- node_impl
\* node_impl::register_predecessor on node n with the pointer p; own tells
\* that p is a node_ptr(this), which owns its node on its own
register_predecessor(h, n, p, own) ==
  [Touch(h, {n}) EXCEPT !.my_predecessors[n] = Append(@, p),
                        !.pred_owner[n] = Append(@, own)]

\* node_impl::register_successor
register_successor(h, s, n) ==
  register_predecessor([Touch(h, {s}) EXCEPT !.my_successors[s] = Append(@, n)],
                       n, s, TRUE)

\* node_impl::set_nid
set_nid(h, n, id) == [Touch(h, {n}) EXCEPT !.nid[n] = id]

\* node_impl::topology_sort, on st = [flag: is_scheduled, junk: the nodes
\* whose is_scheduled byte is garbage, sched: the list]
RECURSIVE topology_sort(_, _, _), VisitSuccessors(_, _, _, _)

\* "!i->is_scheduled": a garbage byte tests true negated as well
NotScheduled(st, s) == ~st.flag[s] \/ s \in st.junk

topology_sort(h, n, st) ==
  LET st1 == [st EXCEPT !.flag[n] = TRUE, !.junk = @ \ {n}]
      st2 == VisitSuccessors(h, n, 1, st1)
  IN [st2 EXCEPT !.sched = <<n>> \o @]

\* the loop of topology_sort stopped after the first successor
VisitSuccessors_first_only(h, n, i, st) ==
  IF i > Len(h.my_successors[n]) \/ i > 1 THEN st
  ELSE LET s == h.my_successors[n][i]
       IN IF NotScheduled(st, s) THEN topology_sort(h, s, st) ELSE st

\* the loop of topology_sort over my_successors, from index i
VisitSuccessors(h, n, i, st) ==
  IF i > Len(h.my_successors[n]) THEN st
  ELSE LET s == h.my_successors[n][i]
       IN VisitSuccessors(h, n, i + 1,
            IF NotScheduled(st, s) THEN topology_sort(h, s, st) ELSE st)

\* node_impl::get_event
get_event(ev, n) == ev[n]

\* the worklist loop without the is_empty branch: every direct predecessor's
\* event is pushed
RECURSIVE Worklist_no_flatten(_, _, _, _)
Worklist_no_flatten(h, ev, pred_nodes, deps) ==
  IF pred_nodes = <<>> THEN deps
  ELSE Worklist_no_flatten(h, ev, SubSeq(pred_nodes, 1, Len(pred_nodes) - 1),
         Append(deps, get_event(ev, pred_nodes[Len(pred_nodes)])))

\* the worklist loop of node_impl::exec: the events pushed to __deps
RECURSIVE Worklist(_, _, _, _)
Worklist(h, ev, pred_nodes, deps) ==
  IF pred_nodes = <<>> THEN deps
  ELSE LET curr_node == pred_nodes[Len(pred_nodes)]
           rest == SubSeq(pred_nodes, 1, Len(pred_nodes) - 1)
       IN IF h.is_empty[curr_node]
            THEN Worklist(h, ev, rest \o h.my_predecessors[curr_node], deps)
            ELSE Worklist(h, ev, rest, Append(deps, get_event(ev, curr_node)))

\* The worklist of node n never empties: it reaches an empty node that lies
\* on a cycle of empty nodes.
EmptyReach(h, S) ==
  LET RECURSIVE Grow(_)
      Grow(T) ==
        LET U == T \cup UNION {Range(h.my_predecessors[x]) :
                                 x \in {y \in T : h.is_empty[y]}}
        IN IF U = T THEN T ELSE Grow(U)
  IN Grow(S)

WorklistDiverges(h, n) ==
  \E e \in EmptyReach(h, Range(h.my_predecessors[n])) :
     /\ h.is_empty[e]
     /\ e \in EmptyReach(h, Range(h.my_predecessors[e]))

\* the loop never gets below the worklist entry x: popping x leads to an
\* empty node on a cycle of empty nodes
Stuck(h, x) ==
  \E e \in EmptyReach(h, {x}) :
     /\ h.is_empty[e]
     /\ e \in EmptyReach(h, Range(h.my_predecessors[e]))

\* The entries pushed as s (the last one is popped first): the place of the
\* first entry the loop never gets below.  The entries after it are popped
\* and worked off, the entries before it stay in pred_nodes for ever.
LastStuck(h, s) ==
  CHOOSE j \in 1..Len(s) :
     /\ Stuck(h, s[j])
     /\ \A k \in (j + 1)..Len(s) : ~Stuck(h, s[k])

\* working off the entries pushed as s leaves pred_nodes or __deps longer
\* than before: an entry stays below the stuck one, or an entry above it
\* pushes an event
Growth(h, s) ==
  LET j == LastStuck(h, s)
  IN \/ j > 1
     \/ Worklist(h, h.my_event, SubSeq(s, j + 1, Len(s)), <<>>) # <<>>

\* the entries pushed when the stuck entry of s is popped, k times over
RECURSIVE StuckPath(_, _, _)
StuckPath(h, s, k) ==
  IF k = 0 THEN s
  ELSE StuckPath(h, h.my_predecessors[s[LastStuck(h, s)]], k - 1)

\* The worklist of node n never empties and pred_nodes or __deps grows
\* without bound, so that a push_back throws std::bad_alloc.  The stuck
\* entries follow one another in a fixed order and, the nodes being
\* finitely many, repeat from the MaxNodes-th on: the vectors grow without
\* bound when a round of the repetition leaves them longer, and otherwise
\* the loop runs for ever in bounded memory.
WorklistGrows(h, n) ==
  /\ WorklistDiverges(h, n)
  /\ \E k \in MaxNodes..(2 * MaxNodes - 1) :
        Growth(h, StuckPath(h, h.my_predecessors[n], k))

\* the wait list node n is submitted with when the events are ev
ResolveWaitSet(h, ev, n) == Worklist(h, ev, h.my_predecessors[n], <<>>)

\* "!is_empty" of node n: a garbage byte tests true negated as well
NotEmpty(h, n) == ~h.is_empty[n] \/ n \in h.garbage.is_empty

\* node_impl::exec on x = [ev: my_event of every node, fresh: the nodes
\* submitted so far by the running graph_impl::exec, log: its calls so far]
node_exec(h, n, x) ==
  LET deps == ResolveWaitSet(h, x.ev, n)
  IN IF h.my_body[n] # NoBody /\ NotEmpty(h, n)
       THEN [ev |-> [x.ev EXCEPT ![n] = n],
             fresh |-> x.fresh \cup {n},
             log |-> Append(x.log, [node |-> n, submitted |-> TRUE,
                                    body |-> h.my_body[n], waits |-> deps,
                                    fresh |-> x.fresh])]
       ELSE [x EXCEPT !.log = Append(@, [node |-> n, submitted |-> FALSE,
                                         body |-> NoBody, waits |-> deps,
                                         fresh |-> x.fresh])]

\* --------------------------------------------------------------- graph_impl
\* std::set<node_ptr> iteration: the members by ascending address
RootSeq(h, g) ==
  SelectSeq(h.addr_order, LAMBDA n : n \in h.my_roots[g])

\* the nodes that the entries of my_predecessors of x own: the entries
\* made by register_successor
OwnedPredecessors(h, x) ==
  {h.my_predecessors[x][i] :
     i \in {k \in 1..Len(h.my_predecessors[x]) : h.pred_owner[x][k]}}

\* the number of entries of my_predecessors of y that own x
OwnedOcc(h, y, x) ==
  Cardinality({i \in 1..Len(h.my_predecessors[y]) :
                 h.my_predecessors[y][i] = x /\ h.pred_owner[y][i]})

\* The node_impl objects deleted when list entries that own the nodes of S
\* are destroyed.  An entry of a schedule is the only owner of its control
\* block (schedule.push_front(node_ptr(this))), so destroying it deletes the
\* node; ~node_impl destroys my_predecessors, whose entries made by
\* register_successor are the only owners of theirs
\* (register_predecessor(node_ptr(this))), so those predecessors are
\* deleted as well, and theirs in turn.  The entries of my_successors share
\* the control block of the handles: destroying them deletes nothing.
Deleted(h, S) ==
  LET RECURSIVE Grow(_)
      Grow(T) ==
        LET U == T \cup UNION {OwnedPredecessors(h, x) : x \in T}
        IN IF U = T THEN T ELSE Grow(U)
  IN Grow(S)

\* destroying the list s of owning entries deletes a node twice: it has two
\* owners among the entries of s and the owning my_predecessors entries of
\* the deleted nodes, or it was deleted before
DoubleDelete(h, s) ==
  LET D == Deleted(h, Range(s))
  IN \/ D \cap h.freed # {}
     \/ \E x \in D :
           \/ Occ(s, x) > 1
           \/ \E y \in D :
                 \/ OwnedOcc(h, y, x) > 1
                 \/ /\ x \in OwnedPredecessors(h, y)
                    /\ \/ x \in Range(s)
                       \/ \E z \in D \ {y} : x \in OwnedPredecessors(h, z)

\* the list s of node_ptr(this) entries is destroyed (my_schedule.clear(),
\* or the end of a caller's list): the nodes it held are deleted with the
\* predecessors they own.  The fields of the nodes in freed are given as
\* they were before the deletion.
DestroyList(h, s) ==
  [h EXCEPT !.freed = @ \cup Deleted(h, Range(s)),
            !.fault = IF @ = Defined /\ DoubleDelete(h, s)
                        THEN UndefinedBehaviour ELSE @]

\* the loop "for (auto n : my_schedule) n->is_scheduled = false;" and
\* my_schedule.clear(): the marks are reset, the list is emptied, and the
\* nodes it held are deleted (none when the list was empty)
ClearSchedule(h, g) ==
  LET s == h.my_schedule[g]
      h1 == Touch(h, Range(s))
  IN DestroyList([h1 EXCEPT !.is_scheduled = [n \in Node |->
                               IF n \in Range(s) THEN FALSE ELSE @[n]],
                            !.garbage.is_scheduled = @ \ Range(s),
                            !.my_schedule[g] = <<>>],
                 s)

\* graph_impl::add_root
add_root(h, g, n) ==
  ClearSchedule([h EXCEPT !.my_roots[g] = @ \cup {n}], g)

\* graph_impl::remove_root
remove_root(h, g, n) ==
  ClearSchedule([h EXCEPT !.my_roots[g] = @ \ {n}], g)

\* the first loop of graph_impl::exec: topology_sort from every root
RECURSIVE SortRoots(_, _, _, _)
SortRoots(h, roots, i, st) ==
  IF i > Len(roots) THEN st
  ELSE SortRoots(h, roots, i + 1, topology_sort(h, roots[i], st))

\* graph_impl::exec without the my_schedule.empty() test: it sorts each time
ComputeSchedule_no_cache(h, g) ==
  SortRoots(h, RootSeq(h, g), 1,
            [flag |-> h.is_scheduled, junk |-> h.garbage.is_scheduled,
             sched |-> <<>>])

\* the schedule graph_impl::exec uses, and the marks it leaves
ComputeSchedule(h, g) ==
  IF h.my_schedule[g] = <<>>
    THEN SortRoots(h, RootSeq(h, g), 1,
                   [flag |-> h.is_scheduled, junk |-> h.garbage.is_scheduled,
                    sched |-> <<>>])
    ELSE [flag |-> h.is_scheduled, junk |-> h.garbage.is_scheduled,
          sched |-> h.my_schedule[g]]

\* the second loop of graph_impl::exec: n->exec(q) for each scheduled node
RECURSIVE SubmitAll(_, _, _, _)
SubmitAll(h, sched, i, x) ==
  IF i > Len(sched) THEN x
  ELSE SubmitAll(h, sched, i + 1, node_exec(h, sched[i], x))

\* graph_impl::exec does not run to its end: some scheduled node's worklist
\* never empties
ExecDiverges(h, g) ==
  \E n \in Range(ComputeSchedule(h, g).sched) : WorklistDiverges(h, n)

\* the place in sched of the first node whose worklist never empties;
\* Len(sched) + 1 when there is none
FirstStuck(h, sched) ==
  CHOOSE i \in 1..(Len(sched) + 1) :
     /\ i <= Len(sched) => WorklistDiverges(h, sched[i])
     /\ \A k \in 1..(i - 1) : ~WorklistDiverges(h, sched[k])

\* graph_impl::exec is left by std::bad_alloc: the worklist of the first
\* node that never empties it grows without bound
ExecThrows(h, g) ==
  /\ ExecDiverges(h, g)
  /\ LET sched == ComputeSchedule(h, g).sched
     IN WorklistGrows(h, sched[FirstStuck(h, sched)])

\* the nodes node_impl::exec of n reads or writes: n and every node its
\* worklist pops
NodeExecTouched(h, n) == {n} \cup EmptyReach(h, Range(h.my_predecessors[n]))

\* The nodes graph_impl::exec reads or writes.  The sort, when it runs,
\* marks every node it pushes and reads the mark of each of their
\* successors; then node_impl::exec runs on the scheduled nodes, up to the
\* first one whose worklist never empties.
ExecTouched(h, g) ==
  LET st == ComputeSchedule(h, g)
      last == FirstStuck(h, st.sched)
      run == SubSeq(st.sched, 1,
                    IF last > Len(st.sched) THEN Len(st.sched) ELSE last)
  IN (IF h.my_schedule[g] = <<>>
        THEN Range(st.sched)
               \cup UNION {Range(h.my_successors[n]) : n \in Range(st.sched)}
        ELSE {})
       \cup UNION {NodeExecTouched(h, n) : n \in Range(run)}

\* graph_impl::exec: the heap after the call, and the node_impl::exec calls
\* that ran to their end, in order.  The call stops in the first node whose
\* worklist never empties, with the schedule computed and the nodes before
\* it submitted.
graph_exec(h, g) ==
  LET st == ComputeSchedule(h, g)
      done == SubSeq(st.sched, 1, FirstStuck(h, st.sched) - 1)
      x == SubmitAll(h, done, 1,
                     [ev |-> h.my_event, fresh |-> {}, log |-> <<>>])
      h1 == IF h.freed = {} THEN h ELSE Touch(h, ExecTouched(h, g))
  IN [heap |-> [h1 EXCEPT !.is_scheduled = st.flag,
                          !.garbage.is_scheduled = st.junk,
                          !.my_schedule[g] = st.sched,
                          !.my_event = x.ev],
      log |-> x.log]

\* --------------------------------------------------------------------- node
\* "new node_impl" places the node n in the storage of the deleted node f:
\* n has the address of f, and every pointer to f (the handles, my_roots,
\* the link lists, my_schedule, ptr_prev_node) now points to n
Reuse(h, f, n) ==
  LET at == CHOOSE i \in 1..Len(h.addr_order) : h.addr_order[i] = f
  IN [h EXCEPT
        !.addr_order = InsertAt(@, at + 1, n),
        !.freed = @ \ {f},
        !.alias = [x \in Node |-> IF @[x] = f THEN n ELSE @[x]],
        !.my_roots = [gg \in AllGraphs |->
                        IF f \in @[gg] THEN (@[gg] \ {f}) \cup {n} ELSE @[gg]],
        !.my_schedule = [gg \in AllGraphs |-> SubstSeq(@[gg], f, n)],
        !.my_successors = [x \in Node |-> SubstSeq(@[x], f, n)],
        !.my_predecessors = [x \in Node |-> SubstSeq(@[x], f, n)],
        !.ptr_prev_node = [gg \in AllGraphs |->
                             IF @[gg] = f THEN n ELSE @[gg]]]

\* node::node() / node(g) / node(g, cgf): a new node_impl, placed by the
\* allocator p: <<"fresh", k>> at address rank k among the nodes, or
\* <<"reuse", f>> in the storage of the deleted node f
new_node(h, g, cgf, p) ==
  LET n == h.nnodes + 1
      h1 == IF p[1] = "reuse" THEN Reuse(h, p[2], n)
            ELSE [h EXCEPT !.addr_order = InsertAt(@, p[2], n)]
  IN [h1 EXCEPT !.nnodes = n,
               !.is_scheduled[n] = FALSE,
               !.is_empty[n] = (cgf = NoBody),
               !.nid[n] = 0,
               !.my_body[n] = cgf,
               !.node_graph[n] = g,
               !.handle_graph[n] = g]

\* node::update without the reset of is_scheduled
node_update_keep_mark(h, n, cgf) ==
  [Touch(h, {n}) EXCEPT !.is_empty[n] = FALSE,
                        !.garbage.is_empty = @ \ {n},
                        !.my_body[n] = cgf]

\* node::update
node_update(h, n, cgf) ==
  [Touch(h, {n}) EXCEPT !.is_scheduled[n] = FALSE,
                        !.is_empty[n] = FALSE,
                        !.garbage = [is_scheduled |-> @.is_scheduled \ {n},
                                     is_empty |-> @.is_empty \ {n}],
                        !.my_body[n] = cgf]

\* node::set_root on a handle with my_graph = g and my_node = n:
\* my_graph->add_root(my_node); on a handle of no graph my_graph is null
\* and the process is killed
set_root(h, g, n) ==
  IF g = NullGraph THEN [h EXCEPT !.fault = Killed] ELSE add_root(h, g, n)

\* node_impl::topology_sort called on node n with a list of the caller's:
\* n and the nodes below it that are not marked are marked and pushed.  The
\* entries pushed own their nodes: when the caller's list is destroyed the
\* nodes it holds are deleted (kept: the list outlives the run).
topology_sort_alone(h, n, kept) ==
  LET st == topology_sort(h, n, [flag |-> h.is_scheduled,
                                 junk |-> h.garbage.is_scheduled,
                                 sched |-> <<>>])
      read == Range(st.sched)
                \cup UNION {Range(h.my_successors[x]) : x \in Range(st.sched)}
      h1 == [Touch(h, read) EXCEPT !.is_scheduled = st.flag,
                                   !.garbage.is_scheduled = st.junk]
  IN IF kept THEN h1 ELSE DestroyList(h1, st.sched)

\* node::exec: my_node->exec(q)
node_handle_exec(h, n) ==
  LET x == node_exec(h, n, [ev |-> h.my_event, fresh |-> {}, log |-> <<>>])
      h1 == IF h.freed = {} THEN h ELSE Touch(h, NodeExecTouched(h, n))
  IN IF WorklistDiverges(h, n) THEN h1 ELSE [h1 EXCEPT !.my_event = x.ev]

\* -------------------------------------------------------------------- graph
\* graph::make_edge
make_edge(h, g, sender, receiver) ==
  remove_root(register_successor(h, sender, receiver), g, receiver)

\* What graph::make_edge gives its caller.  It tests nothing and no
\* statement of it throws: it returns (void), unless it writes a deleted
\* node or its remove_root deletes a node twice; then the behaviour is
\* undefined (the call is killed, or it returns).
make_edge_outcome(h, g, sender, receiver) ==
  IF make_edge(h, g, sender, receiver).fault # Defined
    THEN "undefined" ELSE "returns"

\* the node_impl objects the handles of dep point to in h
Resolve(h, dep) == [i \in 1..Len(dep) |-> h.alias[dep[i]]]

\* "if (!dep.empty()) for (auto n : dep) make_edge(n, Node); else set_root()"
RECURSIVE MakeEdges(_, _, _, _, _)
MakeEdges(h, g, dep, i, n) ==
  IF i > Len(dep) THEN h
  ELSE MakeEdges(make_edge(h, g, dep[i], n), g, dep, i + 1, n)

LinkOrRoot(h, g, dep, n) ==
  IF dep # <<>> THEN MakeEdges(h, g, dep, 1, n) ELSE set_root(h, g, n)

\* add_node whose capture branch links the node but leaves ptr_prev_node
add_node_cgf_stuck_cursor(h, g, cgf, dep, capture, p) ==
  LET h1 == new_node(h, g, cgf, p)
      n == h1.nnodes
  IN IF ~capture THEN LinkOrRoot(h1, g, Resolve(h1, dep), n)
     ELSE IF h1.ptr_prev_node[g] = NullNode
       THEN [set_root(h1, g, n) EXCEPT !.ptr_prev_node[g] = n]
       ELSE register_successor(h1, h1.ptr_prev_node[g], n)

\* graph::add_node(cgf, dep, capture), with the handles dep: the node is
\* made first, and each handle of dep is read when its make_edge is called
add_node_cgf(h, g, cgf, dep, capture, p) ==
  LET h1 == new_node(h, g, cgf, p)
      n == h1.nnodes
  IN IF ~capture THEN LinkOrRoot(h1, g, Resolve(h1, dep), n)
     ELSE IF h1.ptr_prev_node[g] = NullNode
       THEN [set_root(h1, g, n) EXCEPT !.ptr_prev_node[g] = n]
       ELSE [register_successor(h1, h1.ptr_prev_node[g], n)
               EXCEPT !.ptr_prev_node[g] = n]

\* graph::add_node(dep), with the handles dep: an empty node
add_node_empty(h, g, dep, p) ==
  LET h1 == new_node(h, g, NoBody, p)
  IN LinkOrRoot(h1, g, Resolve(h1, dep), h1.nnodes)

\* graph::add_node(Node, dep), on the node_impl n of the handle (the action
\* writes Node.my_graph)
add_node_inplace(h, g, n, dep) ==
  LinkOrRoot([Touch(h, {n}) EXCEPT !.node_graph[n] = g, !.is_empty[n] = FALSE,
                                   !.garbage.is_empty = @ \ {n}],
             g, dep, n)

\* graph::add_node(Node, cgf, dep)
add_node_inplace_cgf(h, g, n, cgf, dep) ==
  LinkOrRoot([Touch(h, {n}) EXCEPT !.node_graph[n] = g, !.my_body[n] = cgf,
                                   !.is_empty[n] = FALSE,
                                   !.garbage.is_empty = @ \ {n}],
             g, dep, n)

\* graph::update_node(Node, dep)
update_node(h, g, n, dep) ==
  LinkOrRoot([Touch(h, {n}) EXCEPT !.node_graph[n] = g, !.is_empty[n] = TRUE,
                                   !.garbage.is_empty = @ \ {n}],
             g, dep, n)

\* graph::update_node(Node, cgf, dep)
update_node_cgf(h, g, n, cgf, dep) ==
  LinkOrRoot([Touch(h, {n}) EXCEPT !.node_graph[n] = g, !.my_body[n] = cgf,
                                   !.is_empty[n] = FALSE,
                                   !.garbage.is_empty = @ \ {n}],
             g, dep, n)

\* What a call of graph_impl::exec gives its caller.  It returns (void);
\* or the worklist loop of a node runs for ever; or that loop grows its
\* vectors until push_back throws std::bad_alloc, which leaves exec as an
\* exception; or it reads or writes a deleted node and the behaviour is
\* undefined.
exec_outcome(h, g) ==
  IF graph_exec(h, g).heap.fault # Defined THEN "undefined"
  ELSE IF ExecThrows(h, g) THEN "throws"
  ELSE IF ExecDiverges(h, g) THEN "hangs"
  ELSE "returns"

\* graph::instantiate with the constructor body run twice over
instantiate_twice(h, g) ==
  LET first == graph_exec(h, g)
      second == graph_exec(first.heap, g)
  IN [heap |-> second.heap, log |-> first.log \o second.log]

\* graph::instantiate: executable_graph{my_graph, q}, whose constructor runs
\* g->exec(my_queue); my_tag is read nowhere
instantiate(h, g) == graph_exec(h, g)

\* executable_graph::exec_and_wait: my_queue.wait() alone; no node_impl::exec
\* call is made and no field of a node or graph is written
executable_exec_and_wait(h) == [heap |-> h, log |-> <<>>]

\* the inner loop of locate_node: the first successor of root, from index
\* i, whose nid is id; NullNode when the loop ends without a return
RECURSIVE SearchSuccessors(_, _, _, _)
SearchSuccessors(h, root, i, id) ==
  IF i > Len(h.my_successors[root]) THEN NullNode
  ELSE IF h.nid[h.my_successors[root][i]] = id THEN h.my_successors[root][i]
  ELSE SearchSuccessors(h, root, i + 1, id)

\* the outer loop of locate_node over my_roots, from index i: the node of
\* the return statement reached; NullNode when the loop ends without one
RECURSIVE SearchRoots(_, _, _, _)
SearchRoots(h, roots, i, id) ==
  IF i > Len(roots) THEN NullNode
  ELSE IF h.nid[roots[i]] = id THEN roots[i]
  ELSE LET successor == SearchSuccessors(h, roots[i], 1, id)
       IN IF successor # NullNode THEN successor
          ELSE SearchRoots(h, roots, i + 1, id)

\* the successors of root whose nid the inner loop reads, from index i
RECURSIVE SuccessorsRead(_, _, _, _)
SuccessorsRead(h, root, i, id) ==
  IF i > Len(h.my_successors[root]) THEN {}
  ELSE {h.my_successors[root][i]}
         \cup (IF h.nid[h.my_successors[root][i]] = id THEN {}
               ELSE SuccessorsRead(h, root, i + 1, id))

\* the nodes locate_node reads, from the root at index i on
RECURSIVE RootsRead(_, _, _, _)
RootsRead(h, roots, i, id) ==
  IF i > Len(roots) THEN {}
  ELSE {roots[i]}
         \cup (IF h.nid[roots[i]] = id THEN {}
               ELSE SuccessorsRead(h, roots[i], 1, id)
                      \cup (IF SearchSuccessors(h, roots[i], 1, id) # NullNode
                              THEN {}
                            ELSE RootsRead(h, roots, i + 1, id)))

\* graph::locate_node: the results a call can give.  When no return
\* statement is reached control flows off the end of a function that
\* returns node_ptr: the behaviour is undefined, and the caller may get a
\* null pointer, a pointer to any node, or an invalid object (Undefined).
\* The same holds when the search reads a deleted node.
locate_node(h, g, id) ==
  LET found == SearchRoots(h, RootSeq(h, g), 1, id)
  IN IF /\ found # NullNode
        /\ RootsRead(h, RootSeq(h, g), 1, id) \cap h.freed = {}
       THEN {found}
     ELSE {NullNode, Undefined} \cup (1..h.nnodes)

\* graph::locate_node: the heap a call leaves.  A search that reaches a
\* return statement writes nothing.  One that reaches none hands back the
\* bits its return slot held, and the caller destroys them as a node_ptr:
\* when they are a stale copy of a pointer the search read (stale, a node;
\* NullNode: none) the use count of that node is dropped without having
\* been raised, and the node is deleted while it is pointed to.
locate_node_heap(h, g, id, stale) ==
  LET roots == RootSeq(h, g)
      read == RootsRead(h, roots, 1, id)
      h1 == Touch(h, read)
  IN IF SearchRoots(h, roots, 1, id) # NullNode THEN h1
     ELSE LET h2 == [h1 EXCEPT !.fault = UndefinedBehaviour]
          IN IF stale \in read THEN DestroyList(h2, <<stale>>) ELSE h2

\* graph::num_nodes
num_nodes(h, g) == Len(h.my_schedule[g])

\* the successor lists of every node summed, the roots or not
num_edges_all_nodes(h, g) ==
  [heap |-> Touch(h, h.my_roots[g]), value |-> NumLinks(h)]

\* graph::num_edges: the value returned, and the heap with the roots read
num_edges(h, g) ==
  LET RECURSIVE Sum(_)
      Sum(S) == IF S = {} THEN 0
                ELSE LET r == CHOOSE r \in S : TRUE
                     IN Len(h.my_successors[r]) + Sum(S \ {r})
  IN [heap |-> Touch(h, h.my_roots[g]), value |-> Sum(h.my_roots[g])]

\* ------------------------------------------------------------------- state
Init ==
  /\ nnodes = 0
  /\ addr_order = <<>>
  /\ is_scheduled = [n \in Node |-> FALSE]
  /\ is_empty = [n \in Node |-> TRUE]
  /\ nid = [n \in Node |-> 0]
  /\ my_body = [n \in Node |-> NoBody]
  /\ node_graph = [n \in Node |-> NullGraph]
  /\ handle_graph = [n \in Node |-> NullGraph]
  /\ my_event = [n \in Node |-> DefaultEvent]
  /\ my_successors = [n \in Node |-> <<>>]
  /\ my_predecessors = [n \in Node |-> <<>>]
  /\ pred_owner = [n \in Node |-> <<>>]
  /\ garbage = [is_scheduled |-> {}, is_empty |-> {}]
  /\ my_roots = [g \in AllGraphs |-> {}]
  /\ my_schedule = [g \in AllGraphs |-> <<>>]
  /\ ptr_prev_node = [g \in AllGraphs |-> NullNode]
  /\ freed = {}
  /\ alias = [n \in Node |-> n]
  /\ hung = FALSE
  /\ corrupt = FALSE
  /\ lost = FALSE
  /\ has_exec_graph = FALSE

\* the nodes a caller of graph g holds: those added to g
NodesOf(g) == {n \in Created : node_graph[n] = g}

\* the nodes an in-place add or an update on g is handed: a node of g or a
\* node made by node() and not yet added to a graph
Usable(g) == {n \in Created : node_graph[n] \in {g, NullGraph}}

\* what a flag byte of a deleted node may hold: 0 (false), 1 (true), or
\* another value (Other), which tests true and whose negation tests true
Other == 2
FlagByte == {0, 1, Other}

\* what the two flag bytes of a deleted node may hold
Junk == [is_scheduled : FlagByte, is_empty : FlagByte]

\* The heap h once the storage of the nodes just deleted (the domain of j)
\* has been taken back by the allocator: their flags, which are their first
\* bytes, hold j from then on, and nid holds no value of the program any
\* more (Undefined).  The other fields of a deleted node are objects whose
\* destructors have run; they are shown as they were.
Scribble(h, j) ==
  [h EXCEPT !.is_scheduled = [n \in Node |->
                IF n \in DOMAIN j THEN j[n].is_scheduled # 0 ELSE @[n]],
            !.is_empty = [n \in Node |->
                IF n \in DOMAIN j THEN j[n].is_empty # 0 ELSE @[n]],
            !.garbage = [is_scheduled |->
                           (@.is_scheduled \ DOMAIN j)
                             \cup {n \in DOMAIN j : j[n].is_scheduled = Other},
                         is_empty |->
                           (@.is_empty \ DOMAIN j)
                             \cup {n \in DOMAIN j : j[n].is_empty = Other}],
            !.nid = [n \in Node |->
                IF n \in DOMAIN j THEN Undefined ELSE @[n]]]

\* The heap h as the program state between calls: a handle whose address
\* holds a later node_impl shows the fields of that node.
Settle(h) ==
  [h EXCEPT
     !.is_scheduled = [x \in Node |-> @[h.alias[x]]],
     !.is_empty = [x \in Node |-> @[h.alias[x]]],
     !.nid = [x \in Node |-> @[h.alias[x]]],
     !.my_body = [x \in Node |-> @[h.alias[x]]],
     !.node_graph = [x \in Node |-> @[h.alias[x]]],
     !.my_event = [x \in Node |-> @[h.alias[x]]],
     !.my_successors = [x \in Node |-> @[h.alias[x]]],
     !.my_predecessors = [x \in Node |-> @[h.alias[x]]],
     !.pred_owner = [x \in Node |-> @[h.alias[x]]],
     !.garbage = [is_scheduled |-> {x \in Node : h.alias[x] \in @.is_scheduled},
                  is_empty |-> {x \in Node : h.alias[x] \in @.is_empty}]]

\* The ways a call that computes the heap h can end, and the heap it
\* leaves.  When every statement was defined it returns; the nodes it
\* deleted read as anything afterwards.  When it read, wrote or deleted
\* again a deleted node, or ran off the end of a function that returns a
\* value, or was made after such a call had returned, its behaviour is
\* undefined: the process is killed in it (SIGSEGV, SIGBUS, or the abort of
\* a checked build), or it returns with the heap its statements compute, or
\* it returns with another heap, of which the source tells nothing (lost).
\* When it dereferenced a null graph_ptr the process is killed.  A killed
\* process leaves no state, and of a lost heap nothing is known: the heap
\* is given as it was.
Outcomes(h) ==
  (IF h.fault = Killed THEN {}
   ELSE {[heap |-> Settle(Scribble(h, j)), killed |-> FALSE, lost |-> FALSE] :
            j \in [h.freed \ freed -> Junk]})
    \cup (IF h.fault = Defined THEN {}
          ELSE {[heap |-> Heap, killed |-> TRUE, lost |-> FALSE]})
    \cup (IF h.fault = UndefinedBehaviour
            THEN {[heap |-> Heap, killed |-> FALSE, lost |-> TRUE]}
            ELSE {})

\* The program can make a call that the model follows: no call is still
\* running (none loops for ever, and the process was not killed), and the
\* heap is one the source tells of.
Running == ~hung /\ ~lost

\* the node_impl a handle points to
At(n) == alias[n]

\* a dependence list of handles, as the nodes they point to
AtAll(dep) == Resolve(Heap, dep)

\* A call that computes the heap h from the state: one of its ends happens.
Call(h) ==
  /\ Running
  /\ \E o \in Outcomes(h) :
        SetHeap(o.heap) /\ hung' = o.killed /\ lost' = o.lost
  /\ UNCHANGED has_exec_graph

\* ----------------------------------------------------------------- actions
\* node Node;  (node::node())
NewNode(p) ==
  /\ nnodes < MaxNodes
  /\ Call(new_node(Heap, NullGraph, NoBody, p))

\* node Node(g);  (node::node(graph_ptr))
NewNodeOf(g, p) ==
  /\ nnodes < MaxNodes
  /\ Call(new_node(Heap, g, NoBody, p))

\* node Node(g, cgf);  (node::node(graph_ptr, T))
NewNodeCgf(g, cgf, p) ==
  /\ nnodes < MaxNodes
  /\ Call(new_node(Heap, g, cgf, p))

\* g.add_node(cgf, dep, capture)
AddNode(g, cgf, dep, capture, p) ==
  /\ nnodes < MaxNodes
  /\ NumLinks(Heap) + (IF capture THEN 1 ELSE Len(dep)) <= MaxLinks
  /\ Call(add_node_cgf(Heap, g, cgf, dep, capture, p))

\* g.add_node(dep)
AddEmptyNode(g, dep, p) ==
  /\ nnodes < MaxNodes
  /\ NumLinks(Heap) + Len(dep) <= MaxLinks
  /\ Call(add_node_empty(Heap, g, dep, p))

\* g.add_node(Node, dep)
AddNodeInPlace(g, n, dep) ==
  /\ NumLinks(Heap) + Len(dep) <= MaxLinks
  /\ Call([add_node_inplace(Heap, g, At(n), AtAll(dep))
            EXCEPT !.handle_graph[n] = g])

\* g.add_node(Node, cgf, dep)
AddNodeInPlaceCgf(g, n, cgf, dep) ==
  /\ NumLinks(Heap) + Len(dep) <= MaxLinks
  /\ Call([add_node_inplace_cgf(Heap, g, At(n), cgf, AtAll(dep))
            EXCEPT !.handle_graph[n] = g])

\* g.update_node(Node, dep)
UpdateNode(g, n, dep) ==
  /\ NumLinks(Heap) + Len(dep) <= MaxLinks
  /\ Call([update_node(Heap, g, At(n), AtAll(dep))
            EXCEPT !.handle_graph[n] = g])

\* g.update_node(Node, cgf, dep)
UpdateNodeCgf(g, n, cgf, dep) ==
  /\ NumLinks(Heap) + Len(dep) <= MaxLinks
  /\ Call([update_node_cgf(Heap, g, At(n), cgf, AtAll(dep))
            EXCEPT !.handle_graph[n] = g])

\* g.make_edge(sender, receiver)
MakeEdge(g, sender, receiver) ==
  /\ NumLinks(Heap) + 1 <= MaxLinks
  /\ Call(make_edge(Heap, g, At(sender), At(receiver)))

\* Node.update(cgf)
NodeUpdate(n, cgf) == Call(node_update(Heap, At(n), cgf))

\* Node.set_root()
SetRoot(n) == Call(set_root(Heap, handle_graph[n], At(n)))

\* graph_impl::add_root(n), called on the graph_impl
AddRoot(g, n) == Call(add_root(Heap, g, At(n)))

\* graph_impl::remove_root(n), called on the graph_impl
RemoveRoot(g, n) == Call(remove_root(Heap, g, At(n)))

\* Node.exec(q): node_impl::exec on one node.  It returns, or throws and
\* leaves the heap to the caller, or never returns.
NodeExec(n) ==
  /\ Running
  /\ \E o \in Outcomes(node_handle_exec(Heap, At(n))) :
        /\ SetHeap(o.heap)
        /\ hung' = (o.killed \/ (~o.lost /\ WorklistDiverges(Heap, At(n))
                                           /\ ~WorklistGrows(Heap, At(n))))
        /\ lost' = o.lost
  /\ UNCHANGED has_exec_graph

\* a call of graph_impl::exec: it returns or throws, leaving the heap of
\* graph_exec to the caller, or it never returns
Execute(g) ==
  /\ Running
  /\ \E o \in Outcomes(graph_exec(Heap, g).heap) :
        /\ SetHeap(o.heap)
        /\ hung' = (o.killed \/
                      (~o.lost /\ ExecDiverges(Heap, g)
                               /\ ~ExecThrows(Heap, g)))
        /\ lost' = o.lost

\* g.exec_and_wait(q)
ExecAndWait(g) == Execute(g) /\ UNCHANGED has_exec_graph

\* g.instantiate(q): the constructor of executable_graph runs g->exec; the
\* handle exists once the constructor has returned
Instantiate(g) ==
  /\ Execute(g)
  /\ has_exec_graph' =
        (has_exec_graph \/ (~ExecDiverges(Heap, g) /\ ~hung' /\ ~lost'))

\* executable_graph::exec_and_wait on a handle made before: my_queue.wait()
HandleExecAndWait ==
  /\ Running
  /\ has_exec_graph
  /\ \E o \in Outcomes(executable_exec_and_wait(Heap).heap) :
        SetHeap(o.heap) /\ hung' = o.killed /\ lost' = o.lost
  /\ UNCHANGED has_exec_graph

\* Node.my_node->set_nid(id)
SetNid(n, id) == Call(set_nid(Heap, At(n), id))

\* g.locate_node(id), with what its return slot held
LocateNode(g, id, stale) == Call(locate_node_heap(Heap, g, id, stale))

\* g.num_edges()
NumEdges(g) == Call(num_edges(Heap, g).heap)

\* Node.register_successor(n): a link made without the graph
RegisterSuccessor(s, n) ==
  /\ NumLinks(Heap) + 1 <= MaxLinks
  /\ NumPredecessors(Heap) + 1 <= MaxLinks
  /\ Call(register_successor(Heap, At(s), At(n)))

\* Node.my_node->register_predecessor(p.my_node): one side of a link; the
\* entry is a copy of the handle's pointer
RegisterPredecessor(n, p) ==
  /\ NumPredecessors(Heap) + 1 <= MaxLinks
  /\ Call(register_predecessor(Heap, At(n), At(p), FALSE))

\* std::list<node_ptr> l; Node.my_node->topology_sort(l); the list is kept
\* to the end of the run, or destroyed at once
TopologySort(n, kept) == Call(topology_sort_alone(Heap, At(n), kept))

\* ---------------------------------------------------------- specifications
\* the storage of a deleted node, given out again
Reused == {<<"reuse", f>> : f \in freed}

\* where the allocator may put a new node_impl: anywhere among the existing
\* ones, or in the storage of a deleted one
AnyAddr == {<<"fresh", k>> : k \in 1..(nnodes + 1)} \cup Reused

\* the dependence lists a caller of g passes: nodes of g
Deps(g) == SeqsUpTo(NodesOf(g), MaxDeps)

\* a node can still be made
Room == nnodes < MaxNodes

\* a caller who keeps the links acyclic, as the scheduler requires, makes
\* the link sender -> receiver only when receiver is another node and does
\* not lead to sender
Forward(sender, receiver) ==
  /\ At(sender) # At(receiver)
  /\ ~LinkReaches(my_successors, At(receiver), At(sender))

\* every handle of dep may be linked to the handle n
ForwardAll(dep, n) == \A i \in 1..Len(dep) : Forward(dep[i], n)

\* the handles that have lost their node: it was deleted
Dangling == {n \in Node : n \in freed \/ alias[n] # n}

\* the call that computes the heap h is followed when it leaves at most
\* MaxDeleted handles without their node
Followed(h) ==
  Cardinality(h.freed \cup {n \in Node : h.alias[n] # n}) <= MaxDeleted

\* Spec: one graph is built with add_node and make_edge, executed and
\* measured, at any point and any number of times; the callers keep the
\* links acyclic, and the allocator places the nodes freely.
Next ==
  \/ Room /\ \E cgf \in Bodies, dep \in Deps("g1"), capture \in BOOLEAN,
                p \in AnyAddr :
        /\ Followed(add_node_cgf(Heap, "g1", cgf, dep, capture, p))
        /\ AddNode("g1", cgf, dep, capture, p)
  \/ Room /\ \E dep \in Deps("g1"), p \in AnyAddr :
        /\ Followed(add_node_empty(Heap, "g1", dep, p))
        /\ AddEmptyNode("g1", dep, p)
  \/ \E sender \in NodesOf("g1"), receiver \in NodesOf("g1") :
        /\ Forward(sender, receiver)
        /\ Followed(make_edge(Heap, "g1", At(sender), At(receiver)))
        /\ MakeEdge("g1", sender, receiver)
  \/ ExecAndWait("g1")
  \/ NumEdges("g1")

Spec == Init /\ [][Next]_vars

\* SpecInstantiate: one graph is built with add_node and make_edge and
\* executed, and executable graphs are made of it and waited for.
NextInstantiate ==
  \/ Room /\ \E cgf \in Bodies, dep \in Deps("g1"), p \in AnyAddr :
        /\ Followed(add_node_cgf(Heap, "g1", cgf, dep, FALSE, p))
        /\ AddNode("g1", cgf, dep, FALSE, p)
  \/ Room /\ \E dep \in Deps("g1"), p \in AnyAddr :
        /\ Followed(add_node_empty(Heap, "g1", dep, p))
        /\ AddEmptyNode("g1", dep, p)
  \/ \E sender \in NodesOf("g1"), receiver \in NodesOf("g1") :
        /\ Forward(sender, receiver)
        /\ Followed(make_edge(Heap, "g1", At(sender), At(receiver)))
        /\ MakeEdge("g1", sender, receiver)
  \/ ExecAndWait("g1")
  \/ Instantiate("g1")
  \/ HandleExecAndWait

SpecInstantiate == Init /\ [][NextInstantiate]_vars

\* SpecRebind: one graph is built and its nodes are redefined in place; the
\* graph is not executed.
NextRebind ==
  \/ Room /\ \E cgf \in Bodies, dep \in Deps("g1"), p \in AnyAddr :
        AddNode("g1", cgf, dep, FALSE, p)
  \/ Room /\ \E p \in AnyAddr : NewNode(p)
  \/ \E n \in Usable("g1"), dep \in Deps("g1") :
        ForwardAll(dep, n) /\ AddNodeInPlace("g1", n, dep)
  \/ \E n \in Usable("g1"), cgf \in Bodies, dep \in Deps("g1") :
        ForwardAll(dep, n) /\ AddNodeInPlaceCgf("g1", n, cgf, dep)
  \/ \E n \in Usable("g1"), dep \in Deps("g1") :
        ForwardAll(dep, n) /\ UpdateNode("g1", n, dep)
  \/ \E n \in Usable("g1"), cgf \in Bodies, dep \in Deps("g1") :
        ForwardAll(dep, n) /\ UpdateNodeCgf("g1", n, cgf, dep)
  \/ \E n \in Created, cgf \in Bodies : NodeUpdate(n, cgf)

SpecRebind == Init /\ [][NextRebind]_vars

\* SpecCyclic: nodes are added to one graph, links are also made directly
\* on the nodes, cycles included, nodes are sorted directly into a list the
\* caller keeps, and the graph is executed.
NextCyclic ==
  \/ Room /\ \E cgf \in Bodies, dep \in Deps("g1"), p \in AnyAddr :
        /\ Followed(add_node_cgf(Heap, "g1", cgf, dep, FALSE, p))
        /\ AddNode("g1", cgf, dep, FALSE, p)
  \/ \E s \in Created, n \in Created : RegisterSuccessor(s, n)
  \/ \E n \in Created :
        /\ Followed(topology_sort_alone(Heap, At(n), TRUE))
        /\ TopologySort(n, TRUE)
  \/ ExecAndWait("g1")

SpecCyclic == Init /\ [][NextCyclic]_vars

\* SpecSort: nodes are added to one graph and sorted directly into a list
\* of the caller's, kept or destroyed at once, and the graph is executed.
NextSort ==
  \/ Room /\ \E cgf \in Bodies, dep \in Deps("g1"), p \in AnyAddr :
        /\ Followed(add_node_cgf(Heap, "g1", cgf, dep, FALSE, p))
        /\ AddNode("g1", cgf, dep, FALSE, p)
  \/ \E n \in Created, kept \in BOOLEAN :
        /\ Followed(topology_sort_alone(Heap, At(n), kept))
        /\ TopologySort(n, kept)
  \/ ExecAndWait("g1")

SpecSort == Init /\ [][NextSort]_vars

\* SpecEmptyCycle: nodes with a body and empty nodes are added to one
\* graph, links are also made directly on the nodes, cycles through empty
\* nodes included, and the graph is executed.
NextEmptyCycle ==
  \/ Room /\ \E cgf \in Bodies, p \in AnyAddr :
        /\ Followed(add_node_cgf(Heap, "g1", cgf, <<>>, FALSE, p))
        /\ AddNode("g1", cgf, <<>>, FALSE, p)
  \/ Room /\ \E dep \in Deps("g1"), p \in AnyAddr :
        /\ Followed(add_node_empty(Heap, "g1", dep, p))
        /\ AddEmptyNode("g1", dep, p)
  \/ \E s \in Created, n \in Created : RegisterSuccessor(s, n)
  \/ ExecAndWait("g1")

SpecEmptyCycle == Init /\ [][NextEmptyCycle]_vars

\* SpecLinks: nodes are added to one graph, the two sides of a link are
\* written directly on the nodes, together or one alone, and the graph is
\* executed.
NextLinks ==
  \/ Room /\ \E cgf \in Bodies, p \in AnyAddr :
        /\ Followed(add_node_cgf(Heap, "g1", cgf, <<>>, FALSE, p))
        /\ AddNode("g1", cgf, <<>>, FALSE, p)
  \/ \E s \in Created, n \in Created : RegisterSuccessor(s, n)
  \/ \E n \in Created, p \in Created : RegisterPredecessor(n, p)
  \/ ExecAndWait("g1")

SpecLinks == Init /\ [][NextLinks]_vars

\* SpecLookup: one graph is built with add_node, its nodes are given ids,
\* and nodes are looked up by id.
NextLookup ==
  \/ Room /\ \E cgf \in Bodies, dep \in Deps("g1"), p \in AnyAddr :
        AddNode("g1", cgf, dep, FALSE, p)
  \/ \E n \in Created, id \in Ids : SetNid(n, id)
  \/ \E id \in Ids, stale \in {NullNode} \cup Created :
        /\ Followed(locate_node_heap(Heap, "g1", id, stale))
        /\ LocateNode("g1", id, stale)

SpecLookup == Init /\ [][NextLookup]_vars

\* SpecTwoGraphs: two graphs are built and executed; make_edge of the first
\* is handed any two nodes, of its own graph or of the other one.
NextTwoGraphs ==
  \/ Room /\ \E g \in AllGraphs :
        \E cgf \in Bodies, p \in AnyAddr :
           /\ Followed(add_node_cgf(Heap, g, cgf, <<>>, FALSE, p))
           /\ AddNode(g, cgf, <<>>, FALSE, p)
  \/ \E sender \in Created, receiver \in Created :
        /\ Forward(sender, receiver)
        /\ Followed(make_edge(Heap, "g1", At(sender), At(receiver)))
        /\ MakeEdge("g1", sender, receiver)
  \/ \E g \in AllGraphs : ExecAndWait(g)

SpecTwoGraphs == Init /\ [][NextTwoGraphs]_vars

\* SpecSetBody: one graph is built with add_node and executed, and the
\* bodies of its nodes are replaced with node::update.
NextSetBody ==
  \/ Room /\ \E cgf \in Bodies, dep \in Deps("g1"), p \in AnyAddr :
        /\ Followed(add_node_cgf(Heap, "g1", cgf, dep, FALSE, p))
        /\ AddNode("g1", cgf, dep, FALSE, p)
  \/ Room /\ \E dep \in Deps("g1"), p \in AnyAddr :
        /\ Followed(add_node_empty(Heap, "g1", dep, p))
        /\ AddEmptyNode("g1", dep, p)
  \/ \E n \in NodesOf("g1"), cgf \in Bodies : NodeUpdate(n, cgf)
  \/ ExecAndWait("g1")

SpecSetBody == Init /\ [][NextSetBody]_vars

\* SpecDirect: nodes are made with the three constructors of node and
\* added to one graph, and the members of node and graph_impl are called
\* directly: set_root and exec on a node, add_root, remove_root and exec on
\* the graph.
NextDirect ==
  \/ Room /\ \E p \in AnyAddr : NewNode(p)
  \/ Room /\ \E p \in AnyAddr : NewNodeOf("g1", p)
  \/ Room /\ \E cgf \in Bodies, p \in AnyAddr : NewNodeCgf("g1", cgf, p)
  \/ Room /\ \E cgf \in Bodies, dep \in Deps("g1"), p \in AnyAddr :
        /\ Followed(add_node_cgf(Heap, "g1", cgf, dep, FALSE, p))
        /\ AddNode("g1", cgf, dep, FALSE, p)
  \/ \E n \in Created :
        /\ Followed(set_root(Heap, handle_graph[n], At(n)))
        /\ SetRoot(n)
  \/ \E n \in Created :
        Followed(add_root(Heap, "g1", At(n))) /\ AddRoot("g1", n)
  \/ \E n \in Created :
        Followed(remove_root(Heap, "g1", At(n))) /\ RemoveRoot("g1", n)
  \/ \E n \in Created : NodeExec(n)
  \/ ExecAndWait("g1")

SpecDirect == Init /\ [][NextDirect]_vars

\* ================================================================= claims
\* No node has ever been deleted and no call has had undefined behaviour:
\* the fields of every node can be read, and every handle points to the
\* node it was made with.
Intact == freed = {} /\ ~corrupt /\ \A n \in Node : alias[n] = n

\* the places of x in the sequence s
Pos(s, x) == {i \in 1..Len(s) : s[i] = x}

\* a and b occur in s, and every a comes before every b
StrictlyBefore(s, a, b) ==
  /\ Pos(s, a) # {}
  /\ Pos(s, b) # {}
  /\ \A i \in Pos(s, a), j \in Pos(s, b) : i < j

\* the nodes that can be reached from the roots of g along successor links
ReachableFromRoots(h, g) ==
  h.my_roots[g] \cup {n \in Node : \E r \in h.my_roots[g] : Reaches(h, r, n)}

\* s is a topological order of exactly the nodes reachable from the roots
IsTopoOrder(h, g, s) ==
  /\ \A n \in Node : Cardinality(Pos(s, n)) <= 1
  /\ Range(s) = ReachableFromRoots(h, g)
  /\ \A a \in Range(s) : \A b \in Range(h.my_successors[a]) :
        StrictlyBefore(s, a, b)

\* the schedule the next graph_impl::exec call on g1 uses
NextSchedule == ComputeSchedule(Heap, "g1").sched

\* the node_impl::exec calls the next graph_impl::exec call on g1 makes
NextLog == graph_exec(Heap, "g1").log

\* the nodes of the calls of a log, in order
NodeOrder(log) == [i \in 1..Len(log) |-> log[i].node]

\* ---- C1
\* C1 (as claimed): a node of the graph is in my_roots if and only if its
\* predecessor list is empty.
C1_RootIffNoPredecessor ==
  \A n \in NodesOf("g1") :
     (n \in my_roots["g1"]) <=> (my_predecessors[n] = <<>>)

\* ---- C2
\* C2 (as claimed): in one execute call, for every link a -> b the node a is
\* submitted before b, and a non-empty b is submitted with a wait list that
\* holds the event a non-empty predecessor a got in this call.
C2_SubmissionOrder ==
  Intact =>
  \A a \in NodesOf("g1") : \A b \in Range(my_successors[a]) :
     /\ \E i \in 1..Len(NextLog), j \in 1..Len(NextLog) :
           i < j /\ NextLog[i].node = a /\ NextLog[j].node = b
     /\ (~is_empty[a] /\ my_body[a] # NoBody) =>
           \A j \in 1..Len(NextLog) :
              (NextLog[j].node = b /\ NextLog[j].submitted) =>
                 (a \in Range(NextLog[j].waits) /\ a \in NextLog[j].fresh)

\* ---- C3
\* C3 (as claimed): the cached schedule is empty or a topological order of
\* exactly the nodes reachable from the roots.
C3_CachedScheduleValid ==
  \/ my_schedule["g1"] = <<>>
  \/ IsTopoOrder(Heap, "g1", my_schedule["g1"])

\* ---- C4
\* C4 (as claimed): make_edge(a, b), for nodes a and b of the graph and in
\* whatever state the graph is, returns, and after it the receiver b is
\* not a root, b is a successor of a, a is a predecessor of b, and the
\* schedule computed next places a strictly before b.
C4_MakeEdge ==
  Intact =>
    \A a \in NodesOf("g1"), b \in NodesOf("g1") :
       LET h == make_edge(Heap, "g1", a, b)
       IN Acyclic(h) =>
            \A o \in Outcomes(h) :
               /\ ~o.killed
               /\ b \notin o.heap.my_roots["g1"]
               /\ b \in Range(o.heap.my_successors[a])
               /\ a \in Range(o.heap.my_predecessors[b])
               /\ StrictlyBefore(ComputeSchedule(o.heap, "g1").sched, a, b)

\* ---- C5
\* the non-empty nodes from which b is reached by a predecessor path whose
\* intermediate nodes are all empty
FlatAncestors(b) ==
  {a \in Created :
     /\ ~is_empty[a]
     /\ \E path \in SeqsUpTo(Created, nnodes) :
           LET full == <<a>> \o path \o <<b>>
           IN /\ \A i \in 1..Len(path) : is_empty[path[i]]
              /\ \A i \in 1..(Len(full) - 1) :
                    full[i] \in Range(my_predecessors[full[i + 1]])}

\* the nodes whose events the worklist of b collects
WaitedNodes(b) == Range(ResolveWaitSet(Heap, [n \in Node |-> n], b))

\* C5: the wait list resolved for a node b holds exactly the events of the
\* non-empty ancestors reached through empty nodes only, the events they
\* have at that moment, and no event of an empty node.
C5_EmptyNodeFlattening ==
  Intact =>
  \A b \in Created :
     /\ WaitedNodes(b) = FlatAncestors(b)
     /\ \A e \in WaitedNodes(b) : ~is_empty[e]
     /\ Range(ResolveWaitSet(Heap, my_event, b)) =
           {my_event[a] : a \in FlatAncestors(b)}

\* A -> E(empty) -> B after an execution: the wait list of B is the event of A
C5_Witness ==
  \E a \in Created, e \in Created, b \in Created :
     /\ Intact
     /\ ~is_empty[a] /\ is_empty[e] /\ ~is_empty[b]
     /\ my_predecessors[e] = <<a>>
     /\ my_predecessors[b] = <<e>>
     /\ my_event[a] = a
     /\ my_event[b] = b
     /\ ResolveWaitSet(Heap, my_event, b) = <<a>>

\* ---- C6
\* in h the graph is the chain 1 -> 2 -> ... -> nnodes that capture adds
\* alone leave
IsCaptureChain(h) ==
  /\ h.freed = {}
  /\ \A n \in 1..h.nnodes : h.node_graph[n] = "g1"
  /\ h.ptr_prev_node["g1"] = h.nnodes
  /\ h.my_roots["g1"] = (IF h.nnodes = 0 THEN {} ELSE {1})
  /\ \A n \in 1..h.nnodes :
        /\ h.my_predecessors[n] = (IF n = 1 THEN <<>> ELSE <<n - 1>>)
        /\ h.my_successors[n] = (IF n = h.nnodes THEN <<>> ELSE <<n + 1>>)

\* C6: the fresh graph is the empty chain, and a capture-mode add_node on
\* a chain made by capture adds gives the chain with the new node at its
\* end: the new node's only predecessor is the node captured before it and
\* only the first captured node is a root.
C6_CaptureChain ==
  /\ nnodes = 0 => IsCaptureChain(Heap)
  /\ (IsCaptureChain(Heap) /\ nnodes < MaxNodes) =>
        \A cgf \in Bodies, dep \in Deps("g1"), p \in AnyAddr :
           IsCaptureChain(add_node_cgf(Heap, "g1", cgf, dep, TRUE, p))

\* three capture adds made: root -> mid -> tail
C6_Witness == nnodes = 3 /\ IsCaptureChain(Heap)

\* ---- C7
\* the heap h has no cached schedule for g1, and the next graph_impl::exec
\* call is defined and computes a topological order of its structure
Recomputed(h) ==
  /\ h.my_schedule["g1"] = <<>>
  /\ graph_exec(h, "g1").heap.fault = Defined
  /\ IsTopoOrder(h, "g1", ComputeSchedule(h, "g1").sched)

\* the call that computes h returns, however it ends, and leaves a heap
\* whose next schedule is a topological order that holds the node n
RecomputedWith(h, n) ==
  \A o \in Outcomes(h) :
     /\ ~o.killed
     /\ Recomputed(o.heap)
     /\ n \in Range(ComputeSchedule(o.heap, "g1").sched)

\* C7 (as claimed): with a schedule cached, a make_edge or the addition of a
\* node (a new root, or a node with dependences, which goes through
\* make_edge) returns with the cache emptied, and the schedule computed
\* next is a topological order of the new structure: it holds the new node
\* and respects the new link.
C7_CacheInvalidation ==
  (Intact /\ my_schedule["g1"] # <<>>) =>
    /\ \A a \in NodesOf("g1"), b \in NodesOf("g1") :
          LET h == make_edge(Heap, "g1", a, b)
          IN Acyclic(h) =>
               /\ RecomputedWith(h, b)
               /\ \A o \in Outcomes(h) :
                     StrictlyBefore(ComputeSchedule(o.heap, "g1").sched, a, b)
    /\ nnodes < MaxNodes =>
          \A dep \in Deps("g1"), p \in AnyAddr :
             /\ \A cgf \in Bodies :
                   RecomputedWith(add_node_cgf(Heap, "g1", cgf, dep, FALSE, p),
                                  nnodes + 1)
             /\ RecomputedWith(add_node_empty(Heap, "g1", dep, p), nnodes + 1)

\* ---- C8
\* C8: an execution directly followed by another one, with no call between
\* them, runs the same nodes in the same order.
C8_ScheduleIdempotent ==
  Intact =>
  LET first == graph_exec(Heap, "g1")
      second == graph_exec(first.heap, "g1")
  IN /\ NodeOrder(second.log) = NodeOrder(first.log)
     /\ second.heap.my_schedule["g1"] = first.heap.my_schedule["g1"]
     /\ second.heap.freed = {}

\* an execution was made of a graph with a root and a node below it
C8_Witness ==
  \E a \in Created, b \in Created :
     /\ Intact
     /\ b \in Range(my_successors[a])
     /\ StrictlyBefore(my_schedule["g1"], a, b)
     /\ my_event[a] = a
     /\ NodeOrder(NextLog) = my_schedule["g1"]

\* ---- C9
\* C9 (as claimed): when the nodes of the graph have no links, num_nodes()
\* is their number and each of them is a root.
C9_NumNodesIndependent ==
  (\A n \in NodesOf("g1") :
      my_predecessors[n] = <<>> /\ my_successors[n] = <<>>)
    => /\ num_nodes(Heap, "g1") = Cardinality(NodesOf("g1"))
       /\ NodesOf("g1") \subseteq my_roots["g1"]

\* ---- C10
\* the links a -> b and b -> a
TwoCycle(a, b) ==
  /\ a # b
  /\ b \in Range(my_successors[a])
  /\ a \in Range(my_successors[b])

\* C10 (as claimed): with a cycle a -> b -> a reachable from a root, the
\* execution reports CycleDetected.
C10_CycleDetected ==
  \A a \in Created, b \in Created :
     (Intact /\ TwoCycle(a, b) /\ a \in ReachableFromRoots(Heap, "g1"))
        => exec_outcome(Heap, "g1") = "CycleDetected"

\* ---- C11
\* C11 (as claimed): after update_node(n, dep), with or without a body, the
\* predecessor list of n is exactly dep: the links n had before are gone.
C11_UpdateOverwritesDeps ==
  \A n \in NodesOf("g1"), dep \in Deps("g1") :
     /\ LET h == update_node(Heap, "g1", n, dep)
        IN Acyclic(h) => h.my_predecessors[n] = dep
     /\ \A cgf \in Bodies :
           LET h == update_node_cgf(Heap, "g1", n, cgf, dep)
           IN Acyclic(h) => h.my_predecessors[n] = dep

\* ---- C12
\* the heap after g1.add_node(cgf, dep) or, with no body, g1.add_node(dep)
AddedNode(cgf, dep, p) ==
  IF cgf = NoBody THEN add_node_empty(Heap, "g1", dep, p)
  ELSE add_node_cgf(Heap, "g1", cgf, dep, FALSE, p)

\* C12 (as claimed): add_node without capture, with or without a body and
\* in whatever state the graph is, returns, and the new node has the
\* predecessor list dep, in the given order, and no successors; with a
\* non-empty dep it is not a root and is appended to the successor list of
\* each member of dep (once per occurrence), which is there to hold it;
\* with an empty dep it is a root; no other successor list changes.
C12_AddNode ==
  (Intact /\ nnodes < MaxNodes) =>
    \A cgf \in Bodies \cup {NoBody}, dep \in Deps("g1"), p \in AnyAddr :
       \A o \in Outcomes(AddedNode(cgf, dep, p)) :
          LET h == o.heap
              n == h.nnodes
          IN /\ ~o.killed
             /\ n = nnodes + 1
             /\ h.my_predecessors[n] = dep
             /\ h.my_successors[n] = <<>>
             /\ (n \in h.my_roots["g1"]) <=> (dep = <<>>)
             /\ Range(dep) \cap h.freed = {}
             /\ \A d \in Created :
                   h.my_successors[d] =
                     my_successors[d] \o
                       [i \in 1..Cardinality(Pos(dep, d)) |-> n]

\* ---- C13
\* C13 (as claimed): every node has a body if and only if it is not marked
\* empty.
C13_BodyIffNotEmpty ==
  \A n \in Created : (my_body[n] # NoBody) <=> ~is_empty[n]

\* ---- C14
\* node_impl::exec of node n alone, from the current state
ExecOne(n) ==
  node_exec(Heap, n, [ev |-> my_event, fresh |-> {}, log |-> <<>>])

\* C14 (as claimed): node_impl::exec on an empty node submits nothing and
\* leaves my_event unchanged; on a node not marked empty it submits once,
\* the node's body with the resolved wait list, and stores the event.
C14_SubmitContract ==
  \A n \in Created :
     LET x == ExecOne(n)
     IN /\ Len(x.log) = 1
        /\ is_empty[n] => (~x.log[1].submitted /\ x.ev = my_event)
        /\ ~is_empty[n] =>
              /\ x.log[1].submitted
              /\ x.log[1].body = my_body[n]
              /\ x.log[1].waits = ResolveWaitSet(Heap, my_event, n)
              /\ x.ev = [my_event EXCEPT ![n] = n]

\* ---- C15
\* C15: instantiate runs graph_impl::exec once, at construction: the
\* node_impl::exec calls it makes are one pass over the schedule, each node
\* with a body that is not marked empty is submitted in it and its event
\* stored; exec_and_wait on the handle then makes no node_impl::exec call
\* and changes nothing.
C15_InstantiateExecutesOnce ==
  Intact =>
  LET sched == NextSchedule
      i == instantiate(Heap, "g1")
      w == executable_exec_and_wait(i.heap)
  IN /\ NodeOrder(i.log) = sched
     /\ i.heap.my_schedule["g1"] = sched
     /\ \A k \in 1..Len(i.log) :
           /\ i.log[k].submitted =
                 (my_body[sched[k]] # NoBody /\ ~is_empty[sched[k]])
           /\ i.log[k].submitted => i.heap.my_event[sched[k]] = sched[k]
     /\ w.log = <<>>
     /\ w.heap = i.heap

\* a handle was made of a graph with a link between two nodes with bodies:
\* both were submitted, and the schedule is cached
C15_Witness ==
  /\ Intact
  /\ has_exec_graph
  /\ \E a \in Created, b \in Created :
        /\ b \in Range(my_successors[a])
        /\ my_event[a] = a /\ my_event[b] = b
        /\ StrictlyBefore(my_schedule["g1"], a, b)

\* ---- C16
\* the nodes locate_node compares with id: the roots and their successors
Searched(h, g) ==
  h.my_roots[g] \cup UNION {Range(h.my_successors[r]) : r \in h.my_roots[g]}

\* C16 (as claimed): locate_node(id) with an id that no searched node
\* carries gives the null pointer and nothing else, and leaves the state
\* as it was, whatever its return slot held.
C16_AbsentIsExplicit ==
  \A id \in Ids :
     (\A n \in Searched(Heap, "g1") : nid[n] # id)
        => /\ locate_node(Heap, "g1", id) = {NullNode}
           /\ \A stale \in {NullNode} \cup Created :
                 locate_node_heap(Heap, "g1", id, stale) = Heap

\* ---- C17
\* C17 (as claimed): when a root or a successor of a root carries id,
\* locate_node(id) gives a node whose nid is id; a node carrying id that is
\* neither a root nor a successor of a root is never the result.
C17_LocateNode ==
  \A id \in Ids :
     /\ (\E n \in Searched(Heap, "g1") : nid[n] = id) =>
           \A r \in locate_node(Heap, "g1", id) : r \in Created /\ nid[r] = id
     /\ \A n \in NodesOf("g1") \ Searched(Heap, "g1") :
           nid[n] = id => n \notin locate_node(Heap, "g1", id)

\* ---- C18
\* the number of links leaving the nodes of S
LinksFrom(S) ==
  Cardinality({ln \in S \X (1..MaxLinks) : ln[2] <= Len(my_successors[ln[1]])})

\* C18: num_edges() is the number of links leaving the roots; it is the
\* number of all links of the graph exactly when every node with a
\* successor is a root, and smaller otherwise.
C18_NumEdges ==
  Intact =>
  LET total == LinksFrom(NodesOf("g1"))
      n_e == num_edges(Heap, "g1").value
  IN /\ n_e = LinksFrom(my_roots["g1"])
     /\ (n_e = total) <=>
           (\A n \in NodesOf("g1") :
               my_successors[n] # <<>> => n \in my_roots["g1"])
     /\ n_e <= total

\* the chain 1 -> 2 -> 3: two links, one of them leaving the root
C18_Witness ==
  /\ Intact
  /\ my_roots["g1"] = {1}
  /\ my_successors[1] = <<2>>
  /\ my_successors[2] = <<3>>
  /\ num_edges(Heap, "g1").value = 1
  /\ LinksFrom(NodesOf("g1")) = 2

\* ---- C19
\* C19 (as claimed): make_edge on graph g with a sender or receiver that
\* belongs to another graph is reported as InvalidNode and changes nothing.
C19_CrossGraphRejected ==
  \A g \in AllGraphs, sender \in Created, receiver \in Created :
     (node_graph[sender] # g \/ node_graph[receiver] # g) =>
        /\ make_edge_outcome(Heap, g, sender, receiver) = "InvalidNode"
        /\ make_edge(Heap, g, sender, receiver) = Heap

\* ---- C20
\* the orders in which the allocator may have placed the nodes made so far
AddrOrders ==
  {s \in [1..nnodes -> Created] : \A i, j \in 1..nnodes : s[i] = s[j] => i = j}

\* C20 (as claimed): the schedule computed for a graph is fixed by the calls
\* that built it: it is the same for every order of the node addresses,
\* that is for every order in which my_roots enumerates its members.
C20_ScheduleDeterministic ==
  Intact =>
  \A s \in AddrOrders :
     ComputeSchedule([Heap EXCEPT !.addr_order = s], "g1").sched = NextSchedule

\* ---- C21
\* C21 (as claimed): from the same state, on the same node with the same
\* arguments, update_node and the in-place add_node leave the same state,
\* with a body and without one.
C21_UpdateIsAddInPlace ==
  \A n \in Usable("g1"), dep \in Deps("g1") :
     /\ \A cgf \in Bodies :
           update_node_cgf(Heap, "g1", n, cgf, dep) =
             add_node_inplace_cgf(Heap, "g1", n, cgf, dep)
     /\ update_node(Heap, "g1", n, dep) = add_node_inplace(Heap, "g1", n, dep)

\* ---- C22
\* C22 (as claimed): in a graph without cycles no node occurs twice in the
\* schedule computed next, and no node is the subject of two node_impl::exec
\* calls of one graph_impl::exec call.
C22_NoDuplicates ==
  (Intact /\ Acyclic(Heap)) =>
    /\ \A n \in Node : Cardinality(Pos(NextSchedule, n)) <= 1
    /\ \A n \in Node : Cardinality(Pos(NodeOrder(NextLog), n)) <= 1

\* ---- C23
\* C23 (as claimed): in one graph_impl::exec call, every event in the wait
\* list of a submitted node was returned by a submission made earlier in
\* that call: it is not the default event of a node never submitted, and
\* not the event an earlier call left on a node this call has not yet
\* submitted.
C23_WaitSetFresh ==
  \A j \in 1..Len(NextLog) :
     NextLog[j].submitted =>
        \A w \in Range(NextLog[j].waits) :
           w # DefaultEvent /\ w \in NextLog[j].fresh

\* ---- C24
\* C24 (as claimed): with the graph executed once and a node captured
\* before, a node added in capture mode is submitted by the next
\* graph_impl::exec call, after the node captured before it.
C24_CaptureAfterExec ==
  (/\ nnodes < MaxNodes
   /\ my_schedule["g1"] # <<>>
   /\ ptr_prev_node["g1"] # NullNode) =>
     \A cgf \in Bodies, p \in AnyAddr :
        LET h == add_node_cgf(Heap, "g1", cgf, <<>>, TRUE, p)
            log == graph_exec(h, "g1").log
        IN \E i \in 1..Len(log), j \in 1..Len(log) :
              /\ i < j
              /\ log[i].node = ptr_prev_node["g1"]
              /\ log[j].node = h.nnodes
              /\ log[j].submitted

\* ---- C25
\* the call that computes h returns, however it ends, and leaves no cached
\* schedule for g1 and no node marked
CleanSlate(h) ==
  \A o \in Outcomes(h) :
     /\ ~o.killed
     /\ o.heap.my_schedule["g1"] = <<>>
     /\ \A n \in Node : ~o.heap.is_scheduled[n]

\* C25 (as claimed): a node with is_scheduled = true is in the cached
\* schedule; so after add_root or remove_root, from any reachable state and
\* for any node, the cached schedule is empty and no node is marked.
C25_MarkedInSchedule ==
  Intact =>
    /\ \A n \in Node : is_scheduled[n] => n \in Range(my_schedule["g1"])
    /\ \A n \in NodesOf("g1") :
          /\ CleanSlate(add_root(Heap, "g1", n))
          /\ CleanSlate(remove_root(Heap, "g1", n))

\* ---- C26
\* C26 (as claimed): on an acyclic graph graph_impl::exec returns, and it has
\* run node_impl::exec on every node reachable from the roots.
C26_ExecTerminatesComplete ==
  (Intact /\ Acyclic(Heap)) =>
    /\ exec_outcome(Heap, "g1") = "returns"
    /\ Range(NodeOrder(NextLog)) = ReachableFromRoots(Heap, "g1")

\* ---- C27
\* the links hold a cycle through a node reachable from a root of g1
CycleFromRoot ==
  \E n \in ReachableFromRoots(Heap, "g1") : Reaches(Heap, n, n)

\* C27 (as claimed): with a cycle reachable from a root the computation of
\* the schedule does not end, so the graph_impl::exec call never returns.
C27_UnboundedRecursion ==
  (Intact /\ CycleFromRoot /\ my_schedule["g1"] = <<>>)
     => exec_outcome(Heap, "g1") = "hangs"

\* no node is marked as scheduled
Unmarked == \A n \in Node : ~is_scheduled[n]

\* C27 (amended): with a cycle reachable from a root, no schedule cached
\* and no node marked, the computation of the schedule ends: topology_sort
\* is entered at most once for each reachable node from a successor loop
\* and once for each root, each entry pushing one element, and the
\* sequence holds every node reachable from the roots, the nodes of the
\* cycle included.
C27_SortTerminatesOnCycle ==
  (Intact /\ CycleFromRoot /\ my_schedule["g1"] = <<>> /\ Unmarked) =>
     /\ Range(NextSchedule) = ReachableFromRoots(Heap, "g1")
     /\ Len(NextSchedule) <=
          Cardinality(ReachableFromRoots(Heap, "g1"))
            + Cardinality(my_roots["g1"])

\* the root 1 leads to the cycle 2 -> 3 -> 2 and nothing is scheduled yet:
\* the sort gives <<1, 2, 3>>
C27_Witness ==
  /\ Intact
  /\ my_roots["g1"] = {1}
  /\ my_successors[1] = <<2>>
  /\ my_successors[2] = <<3>>
  /\ my_successors[3] = <<2>>
  /\ my_schedule["g1"] = <<>>
  /\ Unmarked
  /\ NextSchedule = <<1, 2, 3>>

\* ---- C28
\* C28: node::update(cgf) on node n leaves my_body[n] = cgf, is_empty[n] and
\* is_scheduled[n] false, and every other field of n, every field of every
\* other node, the roots, the cached schedule and the capture cursor as
\* they were.
C28_SetBodyFrame ==
  Intact =>
  \A n \in Created, cgf \in Bodies :
     LET h == node_update(Heap, n, cgf)
     IN /\ h.freed = {}
        /\ h.my_body[n] = cgf
        /\ ~h.is_empty[n]
        /\ ~h.is_scheduled[n]
        /\ \A m \in Node \ {n} :
              /\ h.my_body[m] = my_body[m]
              /\ h.is_empty[m] = is_empty[m]
              /\ h.is_scheduled[m] = is_scheduled[m]
        /\ h.my_successors = my_successors
        /\ h.my_predecessors = my_predecessors
        /\ h.pred_owner = pred_owner
        /\ h.garbage = garbage
        /\ h.my_roots = my_roots
        /\ h.my_schedule = my_schedule
        /\ h.my_event = my_event
        /\ h.node_graph = node_graph
        /\ h.handle_graph = handle_graph
        /\ h.nid = nid
        /\ h.ptr_prev_node = ptr_prev_node
        /\ h.nnodes = nnodes
        /\ h.addr_order = addr_order

\* an empty node was executed, so it is in the cached schedule, and was
\* then given a body: it is non-empty and unmarked, the schedule is still
\* cached, and its successor is still marked
C28_Witness ==
  \E n \in Created, m \in Created :
     /\ Intact
     /\ m \in Range(my_successors[n])
     /\ StrictlyBefore(my_schedule["g1"], n, m)
     /\ ~is_empty[n] /\ my_body[n] # NoBody
     /\ my_event[n] = DefaultEvent
     /\ ~is_scheduled[n]
     /\ is_scheduled[m]

\* ---- C29
\* the number of places of x in the sequence s
Count(s, x) == Cardinality(Pos(s, x))

\* C29 (as claimed): in every state, for all nodes a and b, b occurs in
\* my_successors of a as often as a occurs in my_predecessors of b; and
\* register_successor(s, n) appends n to the successors of s and s to the
\* predecessors of n and changes nothing else: no other list, no graph's
\* roots, no cached schedule.
C29_LinksSymmetric ==
  Intact =>
  /\ \A a \in Node, b \in Node :
        Count(my_successors[a], b) = Count(my_predecessors[b], a)
  /\ \A s \in Created, n \in Created :
        LET h == register_successor(Heap, s, n)
        IN /\ h.freed = {}
           /\ h.my_successors[s] = Append(my_successors[s], n)
           /\ h.my_predecessors[n] = Append(my_predecessors[n], s)
           /\ \A m \in Node \ {s} : h.my_successors[m] = my_successors[m]
           /\ \A m \in Node \ {n} : h.my_predecessors[m] = my_predecessors[m]
           /\ h.my_roots = my_roots
           /\ h.my_schedule = my_schedule
           /\ h.is_scheduled = is_scheduled

\* ---- C30
\* C30 (as claimed): add_node(cgf, dep, capture = true), in whatever state
\* the graph is, returns and does not read dep: whatever dep is, the result
\* is that of the call with an empty dep; no member of dep gains a
\* successor unless it is the node captured before; the new node is a root
\* with no predecessor when no node was captured before, and otherwise a
\* non-root whose only predecessor is the node captured before; the cursor
\* is the new node.
C30_CaptureIgnoresDeps ==
  (Intact /\ nnodes < MaxNodes) =>
    \A cgf \in Bodies, dep \in Deps("g1"), p \in AnyAddr :
       /\ add_node_cgf(Heap, "g1", cgf, dep, TRUE, p) =
             add_node_cgf(Heap, "g1", cgf, <<>>, TRUE, p)
       /\ \A o \in Outcomes(add_node_cgf(Heap, "g1", cgf, dep, TRUE, p)) :
             LET h == o.heap
                 n == h.nnodes
                 prev == ptr_prev_node["g1"]
             IN /\ ~o.killed
                /\ \A d \in Created \ {prev} :
                      h.my_successors[d] = my_successors[d]
                /\ h.my_predecessors[n] =
                      (IF prev = NullNode THEN <<>> ELSE <<prev>>)
                /\ (n \in h.my_roots["g1"]) <=> (prev = NullNode)
                /\ h.ptr_prev_node["g1"] = n

====
